---- MODULE Spec2Model ----
(***************************************************************************)
(* Model of injecfn: defineFn / required (index.ts) and the builder        *)
(* returned by injecfn() with fn / fnWithDefaults (both versions).         *)
(*                                                                         *)
(* JavaScript objects live on a heap (a sequence of mappings, the object   *)
(* id is the index) so that identity, aliasing and mutation are visible.   *)
(* The caller's code (descriptor literals, override literals, override-    *)
(* deriving functions, the implementation f) is the environment: it is     *)
(* drawn from small sets.  The library's code is the operators             *)
(* Spread, Merge, DefineFnConstructor, FnWithDefaultsConstructor,          *)
(* BoundCall and the actions that apply them.                              *)
(*                                                                         *)
(* Spec     : definitions, constructor calls of every argument shape,      *)
(*            invocations.                                                 *)
(* SpecLife : dependencies that are mutable objects, caller writes to the  *)
(*            descriptor and override objects, counted invocations.        *)
(* SpecHist : longer sequences of constructor calls on one constructor.    *)
(* SpecMut  : an implementation that writes to the bag it receives.        *)
(* SpecBuild: several definitions through the shared builder.              *)
(* SpecEquiv: the same definition given to each entry point.               *)
(* SpecFn   : constructors made by fn, with caller writes.                 *)
(***************************************************************************)
EXTENDS Integers, Sequences, FiniteSets, TLC

\* ---------------------------------------------------------------- bounds
MaxCallables == 2      \* constructor calls explored per behaviour
MaxArgs == 2           \* longest positional argument list of an invocation
MaxInvocations == 2    \* counted invocations per behaviour
MaxMutations == 1      \* caller writes to its own objects per behaviour
MaxHistory == 3        \* constructor calls per behaviour in SpecHist
MaxCtors == 2          \* definitions made through the builder per behaviour

\* ---------------------------------------------------------------- values
\* requiredSymbol = Symbol("required"): one token, equal only to itself.
requiredSymbol == "Symbol(required)"

\* Variant: required() makes a new symbol, Symbol("required"), on every call.
requiredFresh == "Symbol(required)#2"

\* required<T>() returns requiredSymbol.
required == requiredSymbol

Keys == {"a", "b"}
DefaultVals == {"d1"}
SuppliedVals == {"o1"}
ArgVals == <<"x", "y", "z", "w">>

Mappings(V) == UNION {[S -> V] : S \in SUBSET Keys}

\* null and undefined are ordinary values
NullishVals == {"null", "undefined"}

\* descriptor literals: each key absent, a default, or required(); and
\* { a: required(), b: null }
DescVals == DefaultVals \cup {required}
Descriptors ==
  Mappings(DescVals)
    \cup {[k \in {"a", "b"} |-> IF k = "a" THEN required ELSE "null"]}

\* override literals: each key absent or supplied, one literal that
\* passes the sentinel itself as a value, { a: undefined } and { b: null }
Overrides ==
  Mappings(SuppliedVals)
    \cup {[k \in {"a"} |-> required], [k \in {"a"} |-> "undefined"],
          [k \in {"b"} |-> "null"]}
EmptyObj == [k \in {} |-> "undefined"]

\* a JavaScript value passed as the constructor's argument
Undefined == [t |-> "undefined", id |-> 0, fn |-> ""]
ObjRef(i) == [t |-> "object", id |-> i, fn |-> ""]
FnRef(g) == [t |-> "function", id |-> 0, fn |-> g]

\* override-deriving functions the caller may pass
OverrideFns == {"gConst", "gDerive", "gThrow"}

\* Dependency values that are themselves mutable objects (a logger with a
\* history): the value is the reference, `inner` holds the number of
\* entries of each one's history.
Loggers == {"L1", "L2"}

\* The two versions of the builder module: the one whose builder is an
\* instance of the class FnConstructorBuilder, and the one whose builder is
\* an object literal.  defineFn belongs to neither.
Versions == {"class", "literal"}
NoVersion == ""

\* const builder = new FnConstructorBuilder<unknown>() and
\* const builder: FnConstructorBuilder<unknown> = { fn: ..., fnWithDefaults: ... }
\* one module-level object each, with an identity of its own.
builder == "builder"
builderLiteral == "builder (object literal)"
NoBuilder == ""

\* injecfn() returns the module-level builder.
injecfn(version) == IF version = "class" THEN builder ELSE builderLiteral

VARIABLES heap, ctors, callables, lastCons, lastCall, inner, count
vars == <<heap, ctors, callables, lastCons, lastCall, inner, count>>

\* --------------------------------------------------- caller-supplied code
\* Allocation of a fresh object holding mapping m.
Alloc(h, m) == [heap |-> Append(h, m), id |-> Len(h) + 1]

\* The caller's override-deriving functions, applied to the object `arg`.
\*   gConst  = (_defaults) => ({ a: "o1" })
\*   gDerive = (d) => ({ b: d.a })          (reads a default)
\*   gThrow  = () => { throw "boom" }
Boom == "boom"

OverrideFnReturn(g, d) ==
  IF g = "gConst" THEN [k \in {"a"} |-> "o1"]
  ELSE [k \in {"b"} |-> IF "a" \in DOMAIN d THEN d["a"] ELSE "undefined"]

CallOverrideFn(h, g, arg) ==
  IF g = "gThrow"
  THEN [heap |-> h, threw |-> TRUE, error |-> Boom, ret |-> 0]
  ELSE LET al == Alloc(h, OverrideFnReturn(g, h[arg]))
       IN [heap |-> al.heap, threw |-> FALSE, error |-> "", ret |-> al.id]

\* The implementation f: echoes what it was called with.
Impl(h, implArgs) ==
  [deps |-> h[Head(implArgs)], args |-> Tail(implArgs)]

\* The implementation's side effect, ({ a }) => a.log("message"): when the
\* dependency a it received is a logger, that logger's history grows.
ImplEffect(in, h, implLog) ==
  IF implLog = <<>> THEN in
  ELSE LET deps == h[Head(implLog[1])]
       IN IF "a" \in DOMAIN deps /\ deps["a"] \in Loggers
          THEN [in EXCEPT ![deps["a"]] = @ + 1]
          ELSE in

\* ------------------------------------------------------------ library code
\* Object spread `...v`: own enumerable properties of v; nothing for
\* undefined, nothing for a plain function.
Spread(h, v) ==
  IF v.t = "object" THEN h[v.id] ELSE EmptyObj

\* Variant: the defaults win over the overrides ({ ...o, ...d }).
MergeDefaultWins(d, o) ==
  [k \in (DOMAIN d) \cup (DOMAIN o) |-> IF k \in DOMAIN d THEN d[k] ELSE o[k]]

\* Variant: only the override's keys are kept (the defaults are dropped).
MergeOverrideOnly(d, o) == o

\* Variant: a deep merge, the defaults' logger objects are cloned.
MergeDeepCopy(d, o) ==
  [k \in (DOMAIN d) \cup (DOMAIN o) |->
     IF k \in DOMAIN o THEN o[k]
     ELSE IF d[k] = "L1" THEN "copy of L1"
     ELSE IF d[k] = "L2" THEN "copy of L2"
     ELSE d[k]]

\* Variant: a null or undefined override falls back to the default
\* (o[k] ?? d[k]).
MergeNullish(d, o) ==
  [k \in (DOMAIN d) \cup (DOMAIN o) |->
     IF k \in DOMAIN o /\ (k \notin DOMAIN d \/ o[k] \notin NullishVals)
     THEN o[k] ELSE d[k]]

\* { ...d, ...o } : later spread wins.
Merge(d, o) ==
  [k \in (DOMAIN d) \cup (DOMAIN o) |-> IF k \in DOMAIN o THEN o[k] ELSE d[k]]

\* f.bind(null, bag)
Bind(f, bag) == [f |-> f, bag |-> bag]

\* Result of a constructor call that returned normally.
Returned(h, bound, fnLog) ==
  [heap |-> h, status |-> "ok", error |-> "", bound |-> bound,
   fnLog |-> fnLog, implLog |-> <<>>]

\* Result of a constructor call that raised.
Raised(h, err, fnLog) ==
  [heap |-> h, status |-> "throw", error |-> err, bound |-> Bind("", 0),
   fnLog |-> fnLog, implLog |-> <<>>]

\* Variant: a runtime presence check that raises when a required key is
\* not supplied.
DefineFnConstructorChecked(h, dependencies, f, requirements) ==
  LET D == h[dependencies]
      O == Spread(h, requirements)
      al == Alloc(h, Merge(D, O))
  IN IF \E k \in DOMAIN D : D[k] = requiredSymbol /\ k \notin DOMAIN O
     THEN Raised(h, "missing dependency", <<>>)
     ELSE Returned(al.heap, Bind(f, al.id), <<>>)

\* Variant: unfilled required keys are left out of the bag.
DefineFnConstructorStripped(h, dependencies, f, requirements) ==
  LET D == h[dependencies]
      O == Spread(h, requirements)
      M == Merge(D, O)
      kept == {k \in DOMAIN M : k \in DOMAIN O \/ M[k] # requiredSymbol}
      al == Alloc(h, [k \in kept |-> M[k]])
  IN Returned(al.heap, Bind(f, al.id), <<>>)

\* Variant: a function argument is called with the descriptor and its
\* result is merged (what fnWithDefaults does).
DefineFnConstructorCalling(h, dependencies, f, requirements) ==
  IF requirements.t = "function"
  THEN LET r == CallOverrideFn(h, requirements.fn, dependencies)
           log == <<[fn |-> requirements.fn, arg |-> dependencies, ret |-> r.ret]>>
       IN IF r.threw
          THEN Raised(r.heap, r.error, log)
          ELSE LET al == Alloc(r.heap, Merge(r.heap[dependencies], r.heap[r.ret]))
               IN Returned(al.heap, Bind(f, al.id), log)
  ELSE LET al == Alloc(h, Merge(h[dependencies], Spread(h, requirements)))
       IN Returned(al.heap, Bind(f, al.id), <<>>)

\* Variant: Object.assign(dependencies, requirements), the descriptor
\* itself becomes the bag.
DefineFnConstructorAssign(h, dependencies, f, requirements) ==
  LET M == Merge(h[dependencies], Spread(h, requirements))
  IN Returned([h EXCEPT ![dependencies] = M], Bind(f, dependencies), <<>>)

\* Variant: the defaults are filled into the caller's override object,
\* which becomes the bag.
DefineFnConstructorFill(h, dependencies, f, requirements) ==
  LET M == Merge(h[dependencies], Spread(h, requirements))
      al == Alloc(h, M)
  IN IF requirements.t = "object"
     THEN Returned([h EXCEPT ![requirements.id] = M], Bind(f, requirements.id), <<>>)
     ELSE Returned(al.heap, Bind(f, al.id), <<>>)

\* Variant: the closure keeps the merged result as its new defaults
\* (dependencies = { ...dependencies, ...requirements }), so overrides
\* accumulate from one constructor call to the next.
DefineFnConstructorSticky(h, dependencies, f, requirements) ==
  LET base == IF callables = <<>> THEN h[dependencies]
              ELSE h[callables[Len(callables)].bag]
      al == Alloc(h, Merge(base, Spread(h, requirements)))
  IN Returned(al.heap, Bind(f, al.id), <<>>)

\* Variant: when the override is absent or has no key of its own the
\* descriptor itself is bound (requirements ? { ... } : dependencies).
DefineFnConstructorReuse(h, dependencies, f, requirements) ==
  LET O == Spread(h, requirements)
      al == Alloc(h, Merge(h[dependencies], O))
  IN IF O = EmptyObj
     THEN Returned(h, Bind(f, dependencies), <<>>)
     ELSE Returned(al.heap, Bind(f, al.id), <<>>)

\* Variant: defineFn copies the descriptor when it is called
\* (const defaults = { ...dependencies }) and its constructor merges into
\* that copy's content.
DefineFnConstructorFrozen(h, dependencies, f, requirements) ==
  LET c == CHOOSE x \in 1..Len(ctors) : ctors[x].deps = dependencies
      al == Alloc(h, Merge(ctors[c].defined, Spread(h, requirements)))
  IN Returned(al.heap, Bind(f, al.id), <<>>)

\* defineFn's constructor: (requirements) =>
\*     f.bind(null, { ...dependencies, ...requirements })
DefineFnConstructor(h, dependencies, f, requirements) ==
  LET al == Alloc(h, Merge(h[dependencies], Spread(h, requirements)))
  IN Returned(al.heap, Bind(f, al.id), <<>>)

\* Variant: the function receives a copy of the defaults, { ...defaults }.
FnWithDefaultsConstructorCopy(h, defaults, f, deps) ==
  IF deps.t = "function"
  THEN LET cp == Alloc(h, h[defaults])
           r == CallOverrideFn(cp.heap, deps.fn, cp.id)
           log == <<[fn |-> deps.fn, arg |-> cp.id, ret |-> r.ret]>>
       IN IF r.threw
          THEN Raised(r.heap, r.error, log)
          ELSE LET al == Alloc(r.heap, Merge(r.heap[defaults], r.heap[r.ret]))
               IN Returned(al.heap, Bind(f, al.id), log)
  ELSE LET al == Alloc(h, Merge(h[defaults], Spread(h, deps)))
       IN Returned(al.heap, Bind(f, al.id), <<>>)

\* Variant: an error raised by the function is caught and the defaults
\* alone are used.
FnWithDefaultsConstructorCatch(h, defaults, f, deps) ==
  IF deps.t = "function"
  THEN LET r == CallOverrideFn(h, deps.fn, defaults)
           log == <<[fn |-> deps.fn, arg |-> defaults, ret |-> r.ret]>>
           O == IF r.threw THEN EmptyObj ELSE r.heap[r.ret]
           al == Alloc(r.heap, Merge(r.heap[defaults], O))
       IN Returned(al.heap, Bind(f, al.id), log)
  ELSE LET al == Alloc(h, Merge(h[defaults], Spread(h, deps)))
       IN Returned(al.heap, Bind(f, al.id), <<>>)

\* fnWithDefaults' constructor: (deps) => {
\*     const allDeps = { ...defaults,
\*        ...(typeof deps === "function" ? deps(defaults) : deps) };
\*     return f.bind(null, allDeps); }
FnWithDefaultsConstructor(h, defaults, f, deps) ==
  IF deps.t = "function"
  THEN LET r == CallOverrideFn(h, deps.fn, defaults)
           log == <<[fn |-> deps.fn, arg |-> defaults, ret |-> r.ret]>>
       IN IF r.threw
          THEN Raised(r.heap, r.error, log)
          ELSE LET al == Alloc(r.heap, Merge(r.heap[defaults], r.heap[r.ret]))
               IN Returned(al.heap, Bind(f, al.id), log)
  ELSE LET al == Alloc(h, Merge(h[defaults], Spread(h, deps)))
       IN Returned(al.heap, Bind(f, al.id), <<>>)

\* Variant: the constructor binds a copy of the object it is given,
\* (deps) => f.bind(null, { ...deps }).
FnConstructorCopy(h, f, deps) ==
  LET al == Alloc(h, Spread(h, deps))
  IN Returned(al.heap, Bind(f, al.id), <<>>)

\* fn's constructor (class): (deps) => f.bind(null, deps), for an object
\* deps.
FnConstructor(h, f, deps) ==
  Returned(h, Bind(f, deps.id), <<>>)

\* fn's constructor (object literal):
\*     (deps) => f.bind(null, deps as Readonly<unknown>), for an object deps.
LiteralFnConstructor(h, f, deps) ==
  Returned(h, Bind(f, deps.id), <<>>)

\* Variant: an override that is given replaces the defaults as a whole
\* (f.bind(null, deps ?? defaults)).
LiteralFnWithDefaultsConstructorReplace(h, defaults, f, deps) ==
  LET al == Alloc(h, IF deps.t = "object" THEN h[deps.id] ELSE h[defaults])
  IN Returned(al.heap, Bind(f, al.id), <<>>)

\* fnWithDefaults' constructor (object literal): (deps) =>
\*     f.bind(null, { ...defaults,
\*        ...(typeof deps === "function" ? deps(defaults) : deps) })
LiteralFnWithDefaultsConstructor(h, defaults, f, deps) ==
  LET r == IF deps.t = "function"
           THEN CallOverrideFn(h, deps.fn, defaults)
           ELSE [heap |-> h, threw |-> FALSE, error |-> "", ret |-> 0]
      log == IF deps.t = "function"
             THEN <<[fn |-> deps.fn, arg |-> defaults, ret |-> r.ret]>>
             ELSE <<>>
      O == IF deps.t = "function" THEN r.heap[r.ret] ELSE Spread(h, deps)
      al == Alloc(r.heap, Merge(r.heap[defaults], O))
  IN IF r.threw
     THEN Raised(r.heap, r.error, log)
     ELSE Returned(al.heap, Bind(f, al.id), log)

\* Variant: () => f(bag), the positional arguments are not forwarded.
BoundCallNoForward(h, bound, args) ==
  LET implArgs == <<bound.bag>>
      r == Impl(h, implArgs)
  IN [heap |-> h, implLog |-> <<implArgs>>, implRet |-> r, ret |-> r]

\* Variant: every invocation gets its own copy of the bag,
\* (...args) => f({ ...bag }, ...args).
BoundCallFreshBag(h, bound, args) ==
  LET al == Alloc(h, h[bound.bag])
      implArgs == <<al.id>> \o args
      r == Impl(al.heap, implArgs)
  IN [heap |-> al.heap, implLog |-> <<implArgs>>, implRet |-> r, ret |-> r]

\* Variant: the merge is done at invocation time,
\* (...args) => f({ ...dependencies, ...requirements }, ...args).
BoundCallLate(h, bound, args) ==
  LET al == Alloc(h, Merge(h[ctors[bound.ctor].deps], Spread(h, bound.arg)))
      implArgs == <<al.id>> \o args
      r == Impl(al.heap, implArgs)
  IN [heap |-> al.heap, implLog |-> <<implArgs>>, implRet |-> r, ret |-> r]

\* Variant: the result is memoised; repeating the last invocation returns
\* the remembered result without running the implementation.
BoundCallMemo(h, bound, args) ==
  LET implArgs == <<bound.bag>> \o args
      r == Impl(h, implArgs)
  IN IF /\ lastCall.callable # 0
        /\ callables[lastCall.callable].bag = bound.bag
        /\ lastCall.args = args
     THEN [heap |-> h, implLog |-> <<>>, implRet |-> lastCall.ret,
           ret |-> lastCall.ret]
     ELSE [heap |-> h, implLog |-> <<implArgs>>, implRet |-> r, ret |-> r]

\* Calling a bound function: f(bag, ...args), whose result is returned as is.
BoundCall(h, bound, args) ==
  LET implArgs == <<bound.bag>> \o args
      r == Impl(h, implArgs)
  IN [heap |-> h, implLog |-> <<implArgs>>, implRet |-> r, ret |-> r]

\* ------------------------------------------------------------------ state
NoCons == [ctor |-> 0, arg |-> Undefined, status |-> "none", error |-> "",
           callable |-> 0, fnLog |-> <<>>, implLog |-> <<>>,
           heapBefore |-> <<>>]
NoCall == [callable |-> 0, args |-> <<>>, implLog |-> <<>>,
           implRet |-> [deps |-> EmptyObj, args |-> <<>>],
           ret |-> [deps |-> EmptyObj, args |-> <<>>], made |-> 0]

\* Observation of a behaviour: counted invocations (in all and per
\* callable), implementation runs, caller writes, and the number of caller
\* writes that preceded the last counted invocation.
NoCount == [invocations |-> 0, implCalls |-> 0, mutations |-> 0,
            mutationsSeen |-> 0, by |-> [i \in 1..MaxCallables |-> 0]]

Init ==
  /\ heap = <<>>
  /\ ctors = <<>>
  /\ callables = <<>>
  /\ lastCons = NoCons
  /\ lastCall = NoCall
  /\ inner = [l \in Loggers |-> 0]
  /\ count = NoCount

\* The caller writes a descriptor literal D and calls defineFn(D, f).
\* (`defined` remembers what the literal held at that moment.)
DefineFn(D) ==
  /\ ctors = <<>>
  /\ LET al == Alloc(heap, D)
     IN /\ heap' = al.heap
        /\ ctors' = Append(ctors, [kind |-> "defineFn", deps |-> al.id, f |-> "f",
                                  version |-> NoVersion, builder |-> NoBuilder,
                                  defined |-> D])
  /\ UNCHANGED <<callables, lastCons, lastCall, inner, count>>

\* The caller writes a defaults literal D and calls
\* injecfn().fnWithDefaults(D, f).
FnWithDefaults(D) ==
  /\ ctors = <<>>
  /\ LET al == Alloc(heap, D)
     IN /\ heap' = al.heap
        /\ ctors' = Append(ctors, [kind |-> "fnWithDefaults", deps |-> al.id, f |-> "f",
                                  version |-> "class", builder |-> injecfn("class"),
                                  defined |-> D])
  /\ UNCHANGED <<callables, lastCons, lastCall, inner, count>>

\* Variant: the shared builder keeps the defaults and the implementation
\* of the latest fn / fnWithDefaults call (this.defaults = defaults;
\* this.f = f) and its constructors read them from the builder.
ConstructorCallShared(h, c, arg) ==
  LET last == IF ctors[c].kind = "defineFn" THEN c ELSE Len(ctors)
  IN IF ctors[c].kind = "defineFn"
     THEN DefineFnConstructor(h, ctors[c].deps, ctors[c].f, arg)
     ELSE IF ctors[last].kind = "fn"
     THEN FnConstructor(h, ctors[last].f, arg)
     ELSE FnWithDefaultsConstructor(h, ctors[last].deps, ctors[last].f, arg)

\* Dispatch on the kind of constructor: each constructor is a closure over
\* the defaults and the implementation of its own definition.
ConstructorCall(h, c, arg) ==
  IF ctors[c].kind = "defineFn"
  THEN DefineFnConstructor(h, ctors[c].deps, ctors[c].f, arg)
  ELSE IF ctors[c].kind = "fn"
  THEN IF ctors[c].version = "literal"
       THEN LiteralFnConstructor(h, ctors[c].f, arg)
       ELSE FnConstructor(h, ctors[c].f, arg)
  ELSE IF ctors[c].version = "literal"
       THEN LiteralFnWithDefaultsConstructor(h, ctors[c].deps, ctors[c].f, arg)
       ELSE FnWithDefaultsConstructor(h, ctors[c].deps, ctors[c].f, arg)

\* One constructor call with the already evaluated argument `arg`,
\* starting from heap h0 (the heap after the caller evaluated the argument).
ConstructWith(c, h0, arg) ==
  LET r == ConstructorCall(h0, c, arg)
  IN /\ heap' = r.heap
     /\ callables' = IF r.status = "ok"
                     THEN Append(callables,
                                 [ctor |-> c, f |-> r.bound.f, bag |-> r.bound.bag,
                                  arg |-> arg, heapBefore |-> h0,
                                  resolved |-> r.heap[r.bound.bag]])
                     ELSE callables
     /\ lastCons' = [ctor |-> c, arg |-> arg, status |-> r.status,
                     error |-> r.error,
                     callable |-> IF r.status = "ok" THEN Len(callables) + 1 ELSE 0,
                     fnLog |-> r.fnLog, implLog |-> r.implLog,
                     heapBefore |-> h0]
     /\ UNCHANGED <<ctors, lastCall, inner, count>>

CanConstruct(c) ==
  /\ c \in 1..Len(ctors)
  /\ Len(callables) < MaxCallables

\* constructor()
ConstructNoArg(c) ==
  /\ CanConstruct(c)
  /\ ConstructWith(c, heap, Undefined)

\* constructor({ ...literal O... })
ConstructLiteral(c, O) ==
  /\ CanConstruct(c)
  /\ LET al == Alloc(heap, O)
     IN ConstructWith(c, al.heap, ObjRef(al.id))

\* The objects the caller holds a reference to: the descriptors and the
\* override objects of earlier constructor calls.
CallerObjects ==
  {ctors[c].deps : c \in {x \in 1..Len(ctors) : ctors[x].deps # 0}}
    \cup {callables[i].arg.id : i \in {j \in 1..Len(callables) : callables[j].arg.t = "object"}}

\* constructor(o) for an object o that already exists
ConstructExisting(c, i) ==
  /\ CanConstruct(c)
  /\ i \in CallerObjects
  /\ ConstructWith(c, heap, ObjRef(i))

\* constructor(g) for a function g
ConstructFunction(c, g) ==
  /\ CanConstruct(c)
  /\ ConstructWith(c, heap, FnRef(g))

\* the argument lists tried: none, and MaxArgs arguments ("x", "y", ...)
ArgLists == {<<>>, SubSeq(ArgVals, 1, MaxArgs)}

\* callable(...args)
Invoke(i, args) ==
  /\ i \in 1..Len(callables)
  /\ LET r == BoundCall(heap, callables[i], args)
     IN /\ lastCall' = [callable |-> i, args |-> args, implLog |-> r.implLog,
                        implRet |-> r.implRet, ret |-> r.ret,
                        made |-> Len(callables)]
        /\ heap' = r.heap
  /\ UNCHANGED <<ctors, callables, lastCons, inner, count>>

Next ==
  \/ \E D \in Descriptors : DefineFn(D)
  \/ \E D \in Descriptors : FnWithDefaults(D)
  \/ \E c \in 1..Len(ctors) : ConstructNoArg(c)
  \/ \E c \in 1..Len(ctors), O \in Overrides : ConstructLiteral(c, O)
  \/ \E c \in 1..Len(ctors), i \in CallerObjects : ConstructExisting(c, i)
  \/ \E c \in 1..Len(ctors), g \in OverrideFns : ConstructFunction(c, g)
  \/ \E i \in 1..Len(callables), args \in ArgLists : Invoke(i, args)

Spec == Init /\ [][Next]_vars

\* ------------------------------------------------ life cycle of the objects
\* Descriptor and override literals whose dependency a is a logger object.
LifeDescriptors == {[k \in {"a"} |-> "L1"]}
LifeOverrides == {EmptyObj, [k \in {"a"} |-> "L2"]}

\* The caller assigns o.k = v on an object it holds (adds or reassigns a
\* top-level key).
CallerSet(i, k, v) ==
  /\ i \in CallerObjects
  /\ count.mutations < MaxMutations
  /\ heap' = [heap EXCEPT ![i] =
                [x \in (DOMAIN heap[i]) \cup {k} |-> IF x = k THEN v ELSE heap[i][x]]]
  /\ count' = [count EXCEPT !.mutations = @ + 1]
  /\ UNCHANGED <<ctors, callables, lastCons, lastCall, inner>>

\* The caller runs delete o.k on an object it holds.
CallerDelete(i, k) ==
  /\ i \in CallerObjects
  /\ k \in DOMAIN heap[i]
  /\ count.mutations < MaxMutations
  /\ heap' = [heap EXCEPT ![i] = [x \in (DOMAIN heap[i]) \ {k} |-> heap[i][x]]]
  /\ count' = [count EXCEPT !.mutations = @ + 1]
  /\ UNCHANGED <<ctors, callables, lastCons, lastCall, inner>>

\* callable(...args), with the implementation's side effect and the
\* behaviour's counters.
InvokeCounted(i, args) ==
  /\ i \in 1..Len(callables)
  /\ count.invocations < MaxInvocations
  /\ LET r == BoundCall(heap, callables[i], args)
     IN /\ lastCall' = [callable |-> i, args |-> args, implLog |-> r.implLog,
                        implRet |-> r.implRet, ret |-> r.ret,
                        made |-> Len(callables)]
        /\ heap' = r.heap
        /\ inner' = ImplEffect(inner, r.heap, r.implLog)
        /\ count' = [count EXCEPT !.invocations = @ + 1,
                                  !.implCalls = @ + Len(r.implLog),
                                  !.mutationsSeen = count.mutations,
                                  !.by[i] = @ + 1]
  /\ UNCHANGED <<ctors, callables, lastCons>>

NextLife ==
  \/ \E D \in LifeDescriptors : DefineFn(D)
  \/ \E D \in LifeDescriptors : FnWithDefaults(D)
  \/ \E c \in 1..Len(ctors) : ConstructNoArg(c)
  \/ \E c \in 1..Len(ctors), O \in LifeOverrides : ConstructLiteral(c, O)
  \/ \E i \in CallerObjects : CallerSet(i, "a", "L2")
  \/ \E i \in CallerObjects : CallerDelete(i, "a")
  \/ \E i \in 1..Len(callables) : InvokeCounted(i, <<>>)

SpecLife == Init /\ [][NextLife]_vars

\* ------------------------------------------- longer histories of one constructor
HistDescriptors == {[k \in {"a", "b"} |-> IF k = "a" THEN "d1" ELSE required]}
HistOverrides == {EmptyObj, [k \in {"a"} |-> "o1"]}

CanConstructAgain(c) ==
  /\ c \in 1..Len(ctors)
  /\ Len(callables) < MaxHistory

\* constructor()
ConstructAgainNoArg(c) ==
  /\ CanConstructAgain(c)
  /\ ConstructWith(c, heap, Undefined)

\* constructor({ ...literal O... })
ConstructAgainLiteral(c, O) ==
  /\ CanConstructAgain(c)
  /\ LET al == Alloc(heap, O)
     IN ConstructWith(c, al.heap, ObjRef(al.id))

NextHist ==
  \/ \E D \in HistDescriptors : DefineFn(D)
  \/ \E D \in HistDescriptors : FnWithDefaults(D)
  \/ \E c \in 1..Len(ctors) : ConstructAgainNoArg(c)
  \/ \E c \in 1..Len(ctors), O \in HistOverrides : ConstructAgainLiteral(c, O)
  \/ \E i \in 1..Len(callables) : Invoke(i, <<>>)

SpecHist == Init /\ [][NextHist]_vars

\* ------------------------------------- an implementation that writes to its bag
MutDescriptors ==
  {[k \in {"a"} |-> "d1"],
   [k \in {"a", "b"} |-> IF k = "a" THEN required ELSE "d1"]}
MutOverrides == {EmptyObj, [k \in {"a"} |-> "o1"]}

\* The value the implementation writes.
WrittenVal == "w1"

\* The implementation (deps) => { deps.b = "w1"; ... }: it adds the key b
\* to the object it received as deps, or reassigns it.
ImplWrite(h, implLog) ==
  IF implLog = <<>> THEN h
  ELSE LET o == Head(implLog[1])
       IN [h EXCEPT ![o] =
             [x \in (DOMAIN h[o]) \cup {"b"} |->
                IF x = "b" THEN WrittenVal ELSE h[o][x]]]

\* callable(), with an implementation that writes to its bag.
InvokeWriting(i) ==
  /\ i \in 1..Len(callables)
  /\ count.invocations < MaxInvocations
  /\ LET r == BoundCall(heap, callables[i], <<>>)
     IN /\ lastCall' = [callable |-> i, args |-> <<>>, implLog |-> r.implLog,
                        implRet |-> r.implRet, ret |-> r.ret,
                        made |-> Len(callables)]
        /\ heap' = ImplWrite(r.heap, r.implLog)
        /\ count' = [count EXCEPT !.invocations = @ + 1,
                                  !.implCalls = @ + Len(r.implLog),
                                  !.by[i] = @ + 1]
  /\ UNCHANGED <<ctors, callables, lastCons, inner>>

NextMut ==
  \/ \E D \in MutDescriptors : DefineFn(D)
  \/ \E D \in MutDescriptors : FnWithDefaults(D)
  \/ \E c \in 1..Len(ctors) : ConstructNoArg(c)
  \/ \E c \in 1..Len(ctors), O \in MutOverrides : ConstructLiteral(c, O)
  \/ \E c \in 1..Len(ctors), i \in CallerObjects : ConstructExisting(c, i)
  \/ \E i \in 1..Len(callables) : InvokeWriting(i)

SpecMut == Init /\ [][NextMut]_vars

\* ------------------------------------------- definitions through the builder
\* What the caller passes to fnWithDefaults: a defaults literal and an
\* implementation.
BuildInputs ==
  {[defaults |-> [k \in {"a"} |-> "d1"], f |-> "f"],
   [defaults |-> [k \in {"a", "b"} |-> IF k = "a" THEN required ELSE "d1"],
    f |-> "g"]}
BuildOverrides == {EmptyObj, [k \in {"a"} |-> "o1"]}

\* A program imports one version of the module.
CanBuild(version) ==
  /\ Len(ctors) < MaxCtors
  /\ \A c \in 1..Len(ctors) : ctors[c].version = version

\* injecfn().fnWithDefaults(D, f)
BuilderFnWithDefaults(version, D, f) ==
  /\ CanBuild(version)
  /\ LET al == Alloc(heap, D)
     IN /\ heap' = al.heap
        /\ ctors' = Append(ctors, [kind |-> "fnWithDefaults", deps |-> al.id,
                                   f |-> f, version |-> version,
                                   builder |-> injecfn(version),
                                   defined |-> D])
  /\ UNCHANGED <<callables, lastCons, lastCall, inner, count>>

\* injecfn().fn(f): no descriptor.
BuilderFn(version, f) ==
  /\ CanBuild(version)
  /\ ctors' = Append(ctors, [kind |-> "fn", deps |-> 0, f |-> f,
                             version |-> version, builder |-> injecfn(version),
                             defined |-> EmptyObj])
  /\ UNCHANGED <<heap, callables, lastCons, lastCall, inner, count>>

\* The constructors that have defaults.
WithDefaults == {c \in 1..Len(ctors) : ctors[c].kind # "fn"}

NextBuild ==
  \/ \E v \in Versions, in \in BuildInputs : BuilderFnWithDefaults(v, in.defaults, in.f)
  \/ \E v \in Versions : BuilderFn(v, "h")
  \/ \E c \in WithDefaults : ConstructNoArg(c)
  \/ \E c \in 1..Len(ctors), O \in BuildOverrides : ConstructLiteral(c, O)
  \/ \E i \in 1..Len(callables) : Invoke(i, <<>>)

SpecBuild == Init /\ [][NextBuild]_vars

\* ------------------------------------------------ the entry points side by side
\* defineFn, fnWithDefaults of the class builder, fnWithDefaults of the
\* object-literal builder.
EntryPoints == {"defineFn", "class", "literal"}
EquivDescriptors ==
  {[k \in {"a", "b"} |-> "d1"],
   [k \in {"a", "b"} |-> IF k = "a" THEN required ELSE "null"]}
EquivOverrides == {EmptyObj, [k \in {"a"} |-> "o1"]}

EntryOf(c) == IF ctors[c].kind = "defineFn" THEN "defineFn" ELSE ctors[c].version

\* The caller gives a descriptor literal D and the implementation f to one
\* of the entry points; in one behaviour every entry point is used at most
\* once and all are given equal literals.
DefineVia(entry, D) ==
  /\ \A c \in 1..Len(ctors) : EntryOf(c) # entry /\ heap[ctors[c].deps] = D
  /\ LET al == Alloc(heap, D)
     IN /\ heap' = al.heap
        /\ ctors' = Append(ctors,
             IF entry = "defineFn"
             THEN [kind |-> "defineFn", deps |-> al.id, f |-> "f",
                   version |-> NoVersion, builder |-> NoBuilder,
                                  defined |-> D]
             ELSE [kind |-> "fnWithDefaults", deps |-> al.id, f |-> "f",
                   version |-> entry, builder |-> injecfn(entry),
                   defined |-> D])
  /\ UNCHANGED <<callables, lastCons, lastCall, inner, count>>

NextEquiv ==
  \/ \E e \in EntryPoints, D \in EquivDescriptors : DefineVia(e, D)
  \/ \E c \in 1..Len(ctors), O \in EquivOverrides : ConstructAgainLiteral(c, O)
  \/ \E i \in 1..Len(callables) : Invoke(i, SubSeq(ArgVals, 1, MaxArgs))

SpecEquiv == Init /\ [][NextEquiv]_vars

\* ------------------------------------------------------ constructors made by fn
\* NextFn: one definition through fn, constructor calls with a new or an
\* already used object, caller writes to those objects, invocations.
NextFn ==
  \/ \E v \in Versions : ctors = <<>> /\ BuilderFn(v, "f")
  \/ \E c \in 1..Len(ctors), O \in LifeOverrides : ConstructLiteral(c, O)
  \/ \E c \in 1..Len(ctors), i \in CallerObjects : ConstructExisting(c, i)
  \/ \E i \in CallerObjects : CallerSet(i, "a", "L2")
  \/ \E i \in CallerObjects : CallerDelete(i, "a")
  \/ \E i \in 1..Len(callables) : InvokeCounted(i, <<>>)

SpecFn == Init /\ [][NextFn]_vars

\* ================================================================ claims
\* The descriptor and the override mapping as they were when callable i
\* was constructed, and the bag the callable is bound to.
KindOf(i) == ctors[callables[i].ctor].kind
DescriptorOf(i) == callables[i].heapBefore[ctors[callables[i].ctor].deps]
OverrideOf(i) ==
  IF callables[i].arg.t = "object"
  THEN callables[i].heapBefore[callables[i].arg.id]
  ELSE EmptyObj
BagOf(i) == heap[callables[i].bag]

\* The last constructor call was made on a defineFn constructor / on a
\* fnWithDefaults constructor.
LastConsKind == IF lastCons.ctor = 0 THEN "none" ELSE ctors[lastCons.ctor].kind
LastConsDescriptor == lastCons.heapBefore[ctors[lastCons.ctor].deps]
LastConsOverride ==
  IF lastCons.arg.t = "object" THEN lastCons.heapBefore[lastCons.arg.id]
  ELSE EmptyObj

\* The callable invoked last, and the bag the implementation received.
Invoked == lastCall.callable
BagSeen == lastCall.implRet.deps

\* Keys the descriptor marks required that the override does not supply.
MissingRequired(D, O) ==
  {k \in DOMAIN D : D[k] = requiredSymbol /\ k \notin DOMAIN O}

\* ---------------------------------------------------------------- C1
\* C1: merge precedence.  Whenever a callable built by a defineFn
\* constructor from an object override O is invoked, the bag the
\* implementation receives has O[k] at every key k of O and D[k] at every
\* other key of the descriptor D.
C1_MergePrecedence ==
  (Invoked # 0 /\ KindOf(Invoked) = "defineFn"
     /\ callables[Invoked].arg.t = "object") =>
    LET D == DescriptorOf(Invoked)
        O == OverrideOf(Invoked)
    IN /\ \A k \in DOMAIN O : k \in DOMAIN BagSeen /\ BagSeen[k] = O[k]
       /\ \A k \in (DOMAIN D) \ (DOMAIN O) :
             k \in DOMAIN BagSeen /\ BagSeen[k] = D[k]

\* An override that replaces one default and leaves the other in place.
C1_Witness ==
  /\ Invoked # 0 /\ KindOf(Invoked) = "defineFn"
  /\ callables[Invoked].arg.t = "object"
  /\ DescriptorOf(Invoked) = [k \in {"a", "b"} |-> "d1"]
  /\ OverrideOf(Invoked) = [k \in {"a"} |-> "o1"]
  /\ BagSeen = [k \in {"a", "b"} |-> IF k = "a" THEN "o1" ELSE "d1"]

\* ---------------------------------------------------------------- C2
\* The last constructor call was on a defineFn constructor with the
\* override omitted, or with an object override lacking a required key.
LastConsMissingRequired ==
  /\ LastConsKind = "defineFn"
  /\ lastCons.arg.t \in {"undefined", "object"}
  /\ MissingRequired(LastConsDescriptor, LastConsOverride) # {}

\* C2 as stated: such a constructor call fails with a missing-dependency
\* error and returns no callable.
C2_FailsFast ==
  LastConsMissingRequired =>
    (lastCons.status = "throw" /\ lastCons.error = "missing dependency"
       /\ lastCons.callable = 0)

\* C2 amended: a defineFn constructor called with the override omitted, or
\* with an override lacking a required key, does not fail: it returns a
\* callable without raising, and does not run the implementation.
C2_ReturnsCallable ==
  LastConsMissingRequired =>
    /\ lastCons.status = "ok" /\ lastCons.error = ""
    /\ lastCons.callable \in 1..Len(callables)
    /\ lastCons.implLog = <<>>

C2_Witness ==
  /\ LastConsMissingRequired
  /\ lastCons.arg.t = "undefined"
  /\ lastCons.status = "ok"
  /\ lastCons.callable = Len(callables)

\* ---------------------------------------------------------------- C3
\* C3 as stated: no bag of a callable built by a defineFn constructor holds
\* the required sentinel at any key.
C3_NoSentinel ==
  \A i \in 1..Len(callables) :
    KindOf(i) = "defineFn" =>
      \A k \in DOMAIN BagOf(i) : BagOf(i)[k] # requiredSymbol

\* C3 amended: the bag of a callable built by a defineFn constructor holds
\* the required sentinel at a key only if the descriptor marks the key
\* required and the override does not supply it, or the override itself
\* supplies the sentinel there.
C3_SentinelOnlyWhereUnfilled ==
  \A i \in 1..Len(callables) :
    KindOf(i) = "defineFn" =>
      \A k \in DOMAIN BagOf(i) :
        BagOf(i)[k] = requiredSymbol =>
          \/ k \in MissingRequired(DescriptorOf(i), OverrideOf(i))
          \/ (k \in DOMAIN OverrideOf(i) /\ OverrideOf(i)[k] = requiredSymbol)

\* A required key that the override fills: the bag has no sentinel.
C3_Witness ==
  \E i \in 1..Len(callables) :
    /\ KindOf(i) = "defineFn"
    /\ DescriptorOf(i) = [k \in {"a", "b"} |-> IF k = "a" THEN requiredSymbol ELSE "d1"]
    /\ OverrideOf(i) = [k \in {"a"} |-> "o1"]
    /\ \A k \in DOMAIN BagOf(i) : BagOf(i)[k] # requiredSymbol

\* ---------------------------------------------------------------- C4
\* C4: stale-sentinel pass-through.  When a required key is absent from
\* the override, the defineFn constructor returns a callable without
\* raising, the bag holds the sentinel at that key, and an invocation
\* hands that sentinel to the implementation.
C4_StaleSentinel ==
  /\ LastConsMissingRequired =>
        /\ lastCons.status = "ok"
        /\ \A k \in MissingRequired(LastConsDescriptor, LastConsOverride) :
              /\ k \in DOMAIN BagOf(lastCons.callable)
              /\ BagOf(lastCons.callable)[k] = requiredSymbol
  /\ (Invoked # 0 /\ KindOf(Invoked) = "defineFn") =>
        \A k \in MissingRequired(DescriptorOf(Invoked), OverrideOf(Invoked)) :
          k \in DOMAIN BagSeen /\ BagSeen[k] = requiredSymbol

\* A callable built with the required key left out has been invoked and
\* its implementation saw the sentinel.
C4_Witness ==
  /\ Invoked # 0 /\ KindOf(Invoked) = "defineFn"
  /\ callables[Invoked].arg.t = "object"
  /\ "a" \in MissingRequired(DescriptorOf(Invoked), OverrideOf(Invoked))
  /\ BagSeen["a"] = requiredSymbol

\* ---------------------------------------------------------------- C5
\* C5: defaults-only resolution.  For a descriptor D with no required key,
\* a constructor called with no argument or with an empty object yields a
\* bag with exactly the keys and values of D.
C5_DefaultsOnly ==
  \A i \in 1..Len(callables) :
    (/\ \A k \in DOMAIN DescriptorOf(i) : DescriptorOf(i)[k] # requiredSymbol
     /\ \/ callables[i].arg.t = "undefined"
        \/ (callables[i].arg.t = "object" /\ OverrideOf(i) = EmptyObj))
    => /\ BagOf(i) = DescriptorOf(i)
       /\ (Invoked = i => BagSeen = DescriptorOf(i))

\* Both forms (no argument, empty object) on a descriptor of two defaults.
C5_Witness ==
  /\ Len(callables) >= 2
  /\ DescriptorOf(1) = [k \in {"a", "b"} |-> "d1"]
  /\ callables[1].arg.t = "undefined"
  /\ callables[2].arg.t = "object" /\ OverrideOf(2) = EmptyObj
  /\ BagOf(1) = DescriptorOf(1) /\ BagOf(2) = DescriptorOf(1)

\* ---------------------------------------------------------------- C6
LastConsFunctionOnDefineFn ==
  LastConsKind = "defineFn" /\ lastCons.arg.t = "function"

\* C6 as stated: a function passed to a defineFn constructor is invoked
\* exactly once during the constructor call, with the descriptor object.
C6_FunctionInvokedOnce ==
  LastConsFunctionOnDefineFn =>
    /\ Len(lastCons.fnLog) = 1
    /\ lastCons.fnLog[1].fn = lastCons.arg.fn
    /\ lastCons.fnLog[1].arg = ctors[lastCons.ctor].deps

\* C6 amended: a function passed to a defineFn constructor is never
\* invoked; the constructor returns a callable whose bag equals the
\* descriptor, which is left unmodified.
C6_FunctionNotInvoked ==
  LastConsFunctionOnDefineFn =>
    /\ lastCons.fnLog = <<>>
    /\ lastCons.status = "ok"
    /\ BagOf(lastCons.callable) = LastConsDescriptor
    /\ heap[ctors[lastCons.ctor].deps] = LastConsDescriptor

C6_Witness ==
  /\ LastConsFunctionOnDefineFn
  /\ lastCons.arg.fn = "gConst"
  /\ LastConsDescriptor = [k \in {"a", "b"} |-> "d1"]
  /\ BagOf(lastCons.callable) = [k \in {"a", "b"} |-> "d1"]

\* ---------------------------------------------------------------- C7
\* C7: a function passed to a fnWithDefaults constructor is called exactly
\* once, with the very defaults object given at definition (unmodified),
\* and when it returns the bag is the defaults overlaid with the mapping
\* it returned: returned keys win, other default keys keep their default.
C7_FunctionOverride ==
  (LastConsKind = "fnWithDefaults" /\ lastCons.arg.t = "function") =>
    /\ Len(lastCons.fnLog) = 1
    /\ lastCons.fnLog[1].fn = lastCons.arg.fn
    /\ lastCons.fnLog[1].arg = ctors[lastCons.ctor].deps
    /\ heap[ctors[lastCons.ctor].deps] = LastConsDescriptor
    /\ lastCons.status = "ok" =>
         LET D == LastConsDescriptor
             R == heap[lastCons.fnLog[1].ret]
             bag == BagOf(lastCons.callable)
         IN /\ DOMAIN bag = (DOMAIN D) \cup (DOMAIN R)
            /\ \A k \in DOMAIN R : bag[k] = R[k]
            /\ \A k \in (DOMAIN D) \ (DOMAIN R) : bag[k] = D[k]

\* The function returns { a: "o1" } over defaults { a: "d1", b: "d1" }.
C7_Witness ==
  /\ LastConsKind = "fnWithDefaults" /\ lastCons.arg.t = "function"
  /\ lastCons.arg.fn = "gConst"
  /\ LastConsDescriptor = [k \in {"a", "b"} |-> "d1"]
  /\ lastCons.status = "ok"
  /\ BagOf(lastCons.callable) = [k \in {"a", "b"} |-> IF k = "a" THEN "o1" ELSE "d1"]

\* ---------------------------------------------------------------- C8
\* C8: argument forwarding.  Invoking a callable with (a1..an) invokes the
\* implementation once with (bag, a1..an), in that order, and the callable
\* returns the value the implementation returned.
C8_ArgumentForwarding ==
  Invoked # 0 =>
    /\ lastCall.implLog = <<(<<callables[Invoked].bag>> \o lastCall.args)>>
    /\ lastCall.implRet.args = lastCall.args
    /\ lastCall.ret = lastCall.implRet

\* An invocation with at least two arguments, starting ("x", "y").
C8_Witness ==
  /\ Invoked # 0
  /\ Len(lastCall.args) >= 2
  /\ SubSeq(lastCall.args, 1, 2) = <<"x", "y">>
  /\ SubSeq(lastCall.implLog[1], 1, 3) = <<callables[Invoked].bag, "x", "y">>
  /\ lastCall.ret.args = lastCall.args

\* ---------------------------------------------------------------- C9
\* C9: override independence.  Distinct constructor calls give callables
\* bound to distinct bags, every bag still holds what it held when its
\* constructor call returned, whatever constructor calls and invocations
\* came later, and an invocation sees that same content.
C9_OverrideIndependence ==
  /\ \A i, j \in 1..Len(callables) :
        i # j => callables[i].bag # callables[j].bag
  /\ \A i \in 1..Len(callables) : BagOf(i) = callables[i].resolved
  /\ Invoked # 0 => BagSeen = callables[Invoked].resolved

\* The first callable is invoked after a second one with another override
\* was constructed.
C9_Witness ==
  /\ Len(callables) = 2
  /\ callables[1].ctor = callables[2].ctor
  /\ callables[1].resolved # callables[2].resolved
  /\ Invoked = 1 /\ lastCall.made = 2
  /\ BagSeen = callables[1].resolved

\* --------------------------------------------------------------- C10
\* C10: resolution leaves its inputs unchanged.  A constructor call changes
\* no object that existed before it (descriptor, override objects, earlier
\* bags), including the override object it was given; it does not run
\* the implementation; the only objects it adds are the bag and what the
\* override-deriving function returned.
C10_InputsUnchanged ==
  [][lastCons' # lastCons =>
       /\ \A i \in 1..Len(heap) : heap'[i] = heap[i]
       /\ \A i \in 1..Len(lastCons'.heapBefore) :
             heap'[i] = lastCons'.heapBefore[i]
       /\ lastCons'.implLog = <<>>
       /\ Len(heap') <= Len(lastCons'.heapBefore) + Len(lastCons'.fnLog) + 1
       /\ lastCons'.arg.t # "function" => lastCons'.fnLog = <<>>]_vars

\* A constructor call whose override replaces a default: descriptor and
\* override object are as they were.
C10_Witness ==
  /\ lastCons.status = "ok" /\ lastCons.arg.t = "object"
  /\ LastConsDescriptor = [k \in {"a", "b"} |-> "d1"]
  /\ LastConsOverride = [k \in {"a"} |-> "o1"]
  /\ heap[ctors[lastCons.ctor].deps] = LastConsDescriptor
  /\ heap[lastCons.arg.id] = LastConsOverride

\* --------------------------------------------------------------- C11
\* C11 as stated: the bag of a callable built by a defineFn constructor
\* from an object override has exactly the key set of the descriptor, also
\* when the override has keys that the descriptor lacks.
C11_ExtraKeysIgnored ==
  \A i \in 1..Len(callables) :
    (KindOf(i) = "defineFn" /\ callables[i].arg.t = "object") =>
      DOMAIN BagOf(i) = DOMAIN DescriptorOf(i)

\* --------------------------------------------------------------- C12
\* C12: key presence, not value, decides.  For a callable built by a
\* defineFn constructor, a key the override supplies as null or undefined
\* resolves to that value, whether the descriptor marks it required or
\* gives it a default, and a null default that is not overridden resolves
\* to null; the constructor returns normally.
C12_PresenceDecides ==
  /\ \A i \in 1..Len(callables) :
        KindOf(i) = "defineFn" =>
          /\ \A k \in DOMAIN OverrideOf(i) :
                OverrideOf(i)[k] \in NullishVals =>
                  (k \in DOMAIN BagOf(i) /\ BagOf(i)[k] = OverrideOf(i)[k])
          /\ \A k \in (DOMAIN DescriptorOf(i)) \ (DOMAIN OverrideOf(i)) :
                DescriptorOf(i)[k] = "null" =>
                  (k \in DOMAIN BagOf(i) /\ BagOf(i)[k] = "null")
  /\ (Invoked # 0 /\ KindOf(Invoked) = "defineFn") =>
        \A k \in DOMAIN OverrideOf(Invoked) :
          OverrideOf(Invoked)[k] \in NullishVals =>
            BagSeen[k] = OverrideOf(Invoked)[k]

\* defineFn({ a: required(), b: null }, f)({ a: undefined }) was invoked.
C12_Witness ==
  /\ Invoked # 0 /\ KindOf(Invoked) = "defineFn"
  /\ DescriptorOf(Invoked) = [k \in {"a", "b"} |-> IF k = "a" THEN requiredSymbol ELSE "null"]
  /\ OverrideOf(Invoked) = [k \in {"a"} |-> "undefined"]
  /\ BagSeen = [k \in {"a", "b"} |-> IF k = "a" THEN "undefined" ELSE "null"]

LastConsFunctionRaised ==
  /\ lastCons.ctor # 0
  /\ lastCons.arg.t = "function"
  /\ Len(lastCons.fnLog) > 0
  /\ lastCons.fnLog[Len(lastCons.fnLog)].ret = 0

\* C14: when the override-deriving function raises, the constructor call
\* raises that same error, returns no callable, does not run the
\* implementation and leaves the descriptor unchanged.
C14_FunctionFailure ==
  LastConsFunctionRaised =>
    /\ lastCons.status = "throw"
    /\ lastCons.error = Boom
    /\ lastCons.callable = 0
    /\ lastCons.implLog = <<>>
    /\ heap[ctors[lastCons.ctor].deps] = LastConsDescriptor

C14_Witness ==
  /\ LastConsFunctionRaised
  /\ LastConsKind = "fnWithDefaults"
  /\ lastCons.arg.fn = "gThrow"
  /\ lastCons.status = "throw"
  /\ LastConsDescriptor = [k \in {"a", "b"} |-> "d1"]

\* --------------------------------------------------------------- C16
RECURSIVE SumBy(_)
\* Number of counted invocations of the callables in S.
SumBy(S) ==
  IF S = {} THEN 0
  ELSE LET i == CHOOSE x \in S : TRUE IN count.by[i] + SumBy(S \ {i})

\* The callables whose bag holds logger L as dependency a.
Holding(L) ==
  {i \in 1..Len(callables) :
     "a" \in DOMAIN callables[i].resolved /\ callables[i].resolved["a"] = L}

\* C16: the merge is shallow.  At a key that the override leaves out the
\* bag holds the descriptor's own value (the same object), so every logger
\* object has received exactly the log entries of the invocations of all
\* the callables holding it: entries written through one callable are seen
\* through the descriptor and the other callables that share the default,
\* and invocations of a callable that overrides the key never touch the
\* default object.
C16_ShallowMerge ==
  /\ \A i \in 1..Len(callables) :
        \A k \in (DOMAIN DescriptorOf(i)) \ (DOMAIN OverrideOf(i)) :
          k \in DOMAIN BagOf(i) /\ BagOf(i)[k] = DescriptorOf(i)[k]
  /\ \A L \in Loggers : inner[L] = SumBy(Holding(L))

\* Two callables share the default logger: the first was invoked once and
\* its entry is visible through the descriptor and the second callable.
C16_Witness ==
  /\ Len(callables) = 2
  /\ OverrideOf(1) = EmptyObj /\ OverrideOf(2) = EmptyObj
  /\ count.by[1] = 1 /\ count.by[2] = 0
  /\ heap[ctors[1].deps]["a"] = "L1" /\ BagOf(2)["a"] = "L1"
  /\ inner["L1"] = 1

\* --------------------------------------------------------------- C17
\* C17: the bag is fixed at construction.  Whatever keys the caller adds,
\* removes or reassigns on the descriptor or on an override object after a
\* constructor call returned, the callable's bag keeps the content it had
\* when the call returned, and that is what an invocation hands to the
\* implementation.
C17_BagFixedAtConstruction ==
  /\ \A i \in 1..Len(callables) : BagOf(i) = callables[i].resolved
  /\ (Invoked # 0 /\ count.invocations > 0) =>
        BagSeen = callables[Invoked].resolved

\* A callable built from { a: L2 } is invoked after the caller deleted a
\* from that override object.
C17_Witness ==
  /\ Invoked # 0 /\ count.invocations > 0
  /\ callables[Invoked].arg.t = "object"
  /\ OverrideOf(Invoked) = [k \in {"a"} |-> "L2"]
  /\ heap[callables[Invoked].arg.id] = EmptyObj
  /\ count.mutations = 1 /\ count.mutationsSeen = 1
  /\ BagSeen = [k \in {"a"} |-> "L2"]

\* --------------------------------------------------------------- C18
\* C18: one bag per callable.  A callable stays bound to the same bag
\* object; every invocation passes that very object to the implementation
\* and allocates nothing; and no step changes the keys or values of a
\* callable's bag.
C18_OneBagPerCallable ==
  [][/\ \A i \in 1..Len(callables) :
          /\ i <= Len(callables') /\ callables'[i].bag = callables[i].bag
          /\ heap'[callables[i].bag] = heap[callables[i].bag]
     /\ count'.invocations # count.invocations =>
          /\ Len(heap') = Len(heap)
          /\ \A e \in 1..Len(lastCall'.implLog) :
                Head(lastCall'.implLog[e]) = callables[lastCall'.callable].bag]_vars

\* The same callable has been invoked twice.
C18_Witness ==
  /\ Invoked = 1 /\ count.by[1] = 2
  /\ Head(lastCall.implLog[1]) = callables[1].bag

\* --------------------------------------------------------------- C19
\* C19: the implementation runs only on invocation.  Defining and
\* constructing never run it, and the number of times it has run equals
\* the number of invocations made: each invocation runs it exactly once,
\* also when the same callable was invoked before with the same arguments.
C19_RunsOnlyOnInvocation ==
  /\ lastCons.implLog = <<>>
  /\ count.implCalls = count.invocations
  /\ count.invocations = 0 => \A L \in Loggers : inner[L] = 0

\* Two callables exist, and one was invoked twice with the same arguments:
\* the implementation ran twice.
C19_Witness ==
  /\ Len(callables) = 2
  /\ count.by[2] = 2
  /\ count.implCalls = 2
  /\ inner[callables[2].resolved["a"]] = 2

\* --------------------------------------------------------------- C20
\* Callables i and j were built with equal override contents (or the same
\* function).
SameOverride(i, j) ==
  /\ (callables[i].arg.t = "function") = (callables[j].arg.t = "function")
  /\ callables[i].arg.fn = callables[j].arg.fn
  /\ OverrideOf(i) = OverrideOf(j)

\* C20: resolution is history-independent.  Two constructor calls of the
\* same constructor that find equal descriptor contents and are given equal
\* override contents produce equal bags, whatever constructor calls and
\* invocations happened before or between them.
C20_HistoryIndependent ==
  \A i, j \in 1..Len(callables) :
    (/\ callables[i].ctor = callables[j].ctor
     /\ DescriptorOf(i) = DescriptorOf(j)
     /\ SameOverride(i, j))
    => /\ callables[i].resolved = callables[j].resolved
       /\ BagOf(i) = BagOf(j)

\* constructor(), an invocation of the result, constructor({ a: "o1" }),
\* then constructor() again: the first and third bags are equal.
C20_Witness ==
  /\ Len(callables) = 3
  /\ callables[1].arg.t = "undefined" /\ callables[3].arg.t = "undefined"
  /\ OverrideOf(2) = [k \in {"a"} |-> "o1"]
  /\ Invoked = 1 /\ lastCall.made = 1
  /\ callables[1].resolved = callables[3].resolved
  /\ callables[1].resolved # callables[2].resolved

\* --------------------------------------------------------------- C21
\* C21: the bag is a fresh object.  The bag of a callable built by a
\* defineFn or fnWithDefaults constructor is an object that did not exist
\* before the constructor call: it is not the descriptor, not the override
\* object (also when the override is empty or absent) and not the bag of
\* another callable.  So when the implementation adds or reassigns the key
\* b of its bag, the descriptor and the override object keep the content
\* they had at construction, the bag of every callable that was not
\* invoked keeps its content, and the written bag differs from what it
\* was at most at b.
C21_FreshBag ==
  \A i \in 1..Len(callables) :
    /\ callables[i].bag > Len(callables[i].heapBefore)
    /\ callables[i].bag # ctors[callables[i].ctor].deps
    /\ callables[i].arg.t = "object" => callables[i].bag # callables[i].arg.id
    /\ \A j \in 1..Len(callables) : i # j => callables[i].bag # callables[j].bag
    /\ heap[ctors[callables[i].ctor].deps] = DescriptorOf(i)
    /\ callables[i].arg.t = "object" => heap[callables[i].arg.id] = OverrideOf(i)
    /\ count.by[i] = 0 => BagOf(i) = callables[i].resolved
    /\ \A k \in DOMAIN callables[i].resolved :
          k # "b" => (k \in DOMAIN BagOf(i) /\ BagOf(i)[k] = callables[i].resolved[k])

\* Two callables built with no override and with an empty override; the
\* implementation of the first has written b into its bag; the descriptor
\* and the bag of the second are as they were.
C21_Witness ==
  /\ Len(callables) = 2
  /\ callables[1].arg.t = "undefined"
  /\ callables[2].arg.t = "object" /\ OverrideOf(2) = EmptyObj
  /\ count.by[1] = 1 /\ count.by[2] = 0
  /\ DescriptorOf(1) = [k \in {"a"} |-> "d1"]
  /\ BagOf(1) = [k \in {"a", "b"} |-> IF k = "a" THEN "d1" ELSE WrittenVal]
  /\ heap[ctors[1].deps] = [k \in {"a"} |-> "d1"]
  /\ BagOf(2) = [k \in {"a"} |-> "d1"]
  /\ heap[callables[2].arg.id] = EmptyObj

\* --------------------------------------------------------------- C22
\* C22: the shared builder is stateless.  Every injecfn() call of one
\* version of the module returned the same builder object, and whatever
\* was defined through it before or after, each callable is bound to the
\* implementation of its own constructor's definition and to a bag
\* resolved against that definition's defaults alone (for fn: to the object
\* it was given), which is what an invocation hands to the implementation.
C22_BuilderStateless ==
  /\ \A c, d \in 1..Len(ctors) :
        ctors[c].version = ctors[d].version => ctors[c].builder = ctors[d].builder
  /\ \A i \in 1..Len(callables) :
        /\ callables[i].f = ctors[callables[i].ctor].f
        /\ callables[i].resolved =
              IF KindOf(i) = "fn" THEN OverrideOf(i)
              ELSE Merge(DescriptorOf(i), OverrideOf(i))
        /\ BagOf(i) = callables[i].resolved
  /\ Invoked # 0 => BagSeen = callables[Invoked].resolved

\* Two fnWithDefaults definitions with different defaults and
\* implementations; a callable of the first was constructed after the
\* second definition and invoked.
C22_Witness ==
  /\ Len(ctors) = 2
  /\ ctors[1].kind = "fnWithDefaults" /\ ctors[2].kind = "fnWithDefaults"
  /\ ctors[1].builder = ctors[2].builder
  /\ heap[ctors[1].deps] # heap[ctors[2].deps]
  /\ ctors[1].f # ctors[2].f
  /\ Invoked # 0 /\ callables[Invoked].ctor = 1
  /\ Len(callables[Invoked].heapBefore) >= ctors[2].deps
  /\ callables[Invoked].f = ctors[1].f
  /\ BagSeen = Merge(heap[ctors[1].deps], OverrideOf(Invoked))

\* --------------------------------------------------------------- C23
\* C23: the entry points are equivalent on object overrides.  Callables
\* built through defineFn, through the class builder's fnWithDefaults and
\* through the object-literal builder's fnWithDefaults from equal
\* descriptors and equal object overrides have equal bags, and every one of
\* them, called with the arguments of the last invocation, returns what
\* that invocation returned.
C23_EntryPointsEquivalent ==
  \A i, j \in 1..Len(callables) :
    (/\ callables[i].arg.t = "object" /\ callables[j].arg.t = "object"
     /\ DescriptorOf(i) = DescriptorOf(j)
     /\ OverrideOf(i) = OverrideOf(j))
    => /\ callables[i].resolved = callables[j].resolved
       /\ BagOf(i) = BagOf(j)
       /\ Invoked = i =>
            /\ BoundCall(heap, callables[j], lastCall.args).ret = lastCall.ret
            /\ BoundCall(heap, callables[j], lastCall.args).implRet.deps = BagSeen

\* One callable from each entry point, all three built from
\* { a: required(), b: null } and { a: "o1" }; one of them was invoked.
C23_Witness ==
  /\ Len(callables) = 3
  /\ {EntryOf(callables[i].ctor) : i \in 1..3} = EntryPoints
  /\ \A i \in 1..3 :
        /\ DescriptorOf(i) = [k \in {"a", "b"} |-> IF k = "a" THEN required ELSE "null"]
        /\ OverrideOf(i) = [k \in {"a"} |-> "o1"]
        /\ BagOf(i) = [k \in {"a", "b"} |-> IF k = "a" THEN "o1" ELSE "null"]
  /\ Invoked # 0
  /\ Len(lastCall.args) = MaxArgs
  /\ lastCall.ret.deps = BagOf(1)

\* --------------------------------------------------------------- C24
\* C24: a constructor made by fn neither merges nor copies.  The callable
\* is bound to the very object the constructor was given (an object that
\* existed before the call), and an invocation hands the implementation
\* that object with the content it has at the time of the invocation: as long
\* as the caller has not written to its objects since the last invocation,
\* what the implementation saw is the present content of that object.
C24_FnBindsArgument ==
  /\ \A i \in 1..Len(callables) :
        KindOf(i) = "fn" =>
          /\ callables[i].arg.t = "object"
          /\ callables[i].bag = callables[i].arg.id
          /\ callables[i].bag <= Len(callables[i].heapBefore)
  /\ (Invoked # 0 /\ KindOf(Invoked) = "fn"
        /\ count.mutationsSeen = count.mutations) =>
        /\ Head(lastCall.implLog[1]) = callables[Invoked].arg.id
        /\ BagSeen = heap[callables[Invoked].arg.id]

\* The constructor was given { a: L2 }; afterwards the caller deleted a
\* from that object, and the invocation that followed saw an empty bag.
C24_Witness ==
  /\ Invoked # 0 /\ KindOf(Invoked) = "fn"
  /\ OverrideOf(Invoked) = [k \in {"a"} |-> "L2"]
  /\ count.mutations = 1 /\ count.mutationsSeen = 1
  /\ heap[callables[Invoked].arg.id] = EmptyObj
  /\ BagSeen = EmptyObj

\* --------------------------------------------------------------- C25
\* C25: the descriptor is held by reference and read at each constructor
\* call.  A callable built by a defineFn constructor has the bag that
\* results from the content the descriptor object had when that
\* constructor call was made, whatever the descriptor held when defineFn
\* was called; and it keeps that bag when the caller changes the descriptor
\* afterwards.
C25_DescriptorReadAtCall ==
  \A i \in 1..Len(callables) :
    KindOf(i) = "defineFn" =>
      /\ callables[i].resolved = Merge(DescriptorOf(i), OverrideOf(i))
      /\ \A k \in (DOMAIN DescriptorOf(i)) \ (DOMAIN OverrideOf(i)) :
            callables[i].resolved[k] = DescriptorOf(i)[k]
      /\ BagOf(i) = callables[i].resolved
      /\ (Invoked = i /\ count.invocations > 0) => BagSeen = callables[i].resolved

\* defineFn({ a: L1 }, f); a first constructor() ; the caller sets the
\* descriptor's a to L2; a second constructor(), whose callable is invoked:
\* the first bag holds L1, the second holds and sees L2.
C25_Witness ==
  /\ Len(callables) = 2
  /\ KindOf(1) = "defineFn"
  /\ ctors[1].defined = [k \in {"a"} |-> "L1"]
  /\ callables[1].arg.t = "undefined" /\ callables[2].arg.t = "undefined"
  /\ count.mutations = 1
  /\ heap[ctors[1].deps] = [k \in {"a"} |-> "L2"]
  /\ BagOf(1) = [k \in {"a"} |-> "L1"]
  /\ BagOf(2) = [k \in {"a"} |-> "L2"]
  /\ Invoked = 2 /\ count.invocations > 0
  /\ BagSeen = [k \in {"a"} |-> "L2"]

====
